---- MODULE Spec2Model ----
(***************************************************************************)
(* Model of the "Mathematical Intuition Tester" Streamlit application.     *)
(*                                                                         *)
(*   src/utils.py   evaluate_function, calculate_mse, sample_points        *)
(*   src/app.py     the Streamlit script: one top-to-bottom run per user   *)
(*                  event, over st.session_state and the widget state      *)
(*                                                                         *)
(* Two specifications are given.  Spec is the session: every action is one *)
(* user event followed by the script run it triggers (and by the second    *)
(* run when the script calls st.rerun()).  SpecCore applies the functions  *)
(* of utils.py and the score formula to inputs drawn from bounded sets.    *)
(*                                                                         *)
(* Floats are modelled as exact rationals <<n, d>> in lowest terms, d > 0. *)
(* An expression string is modelled as its sequence of tokens.             *)
(***************************************************************************)
EXTENDS Integers, Sequences, FiniteSets, TLC

VARIABLES
    history,              \* st.session_state.history
    current_function,     \* st.session_state.current_function
    drawing_submitted,    \* st.session_state.drawing_submitted
    current_canvas_data,  \* st.session_state.current_canvas_data
    x_range,              \* st.session_state.x_range
    y_range,              \* st.session_state.y_range
    function_input,       \* value of the text_input widget
    canvas,               \* value of the st_canvas widget (key="canvas")
    rendered,             \* widgets drawn by the last completed script run
    last_message,         \* st.success / st.error / st.warning of the last run
    core_points,          \* drawn_points handed to sample_points by the last run
    call,                 \* SpecCore: the call being made
    result,               \* SpecCore: its result
    prev_score            \* SpecCore: <<mse, score>> of the score computed before

session_vars == <<history, current_function, drawing_submitted, current_canvas_data,
                  x_range, y_range, function_input, canvas, rendered,
                  last_message, core_points>>
core_vars == <<call, result, prev_score>>
vars == <<history, current_function, drawing_submitted, current_canvas_data,
          x_range, y_range, function_input, canvas, rendered,
          last_message, core_points, call, result, prev_score>>

-----------------------------------------------------------------------------
(* Bounds of the model.  MaxHistory caps the length of the history,        *)
(* MaxPoints and MaxGrid the lengths of the point lists and grids given to *)
(* the functions under SpecCore.  NumSamples is the number of grid points  *)
(* of the results block, which app.py fixes at 100.                        *)

MaxHistory == 2
MaxPoints == 3
MaxGrid == 2
NumSamples == 3

(* Program constants *)

canvas_width == 600
canvas_height == 400
MseScale == 100

-----------------------------------------------------------------------------
(* Exact rational arithmetic standing in for float arithmetic *)

Abs(n) == IF n < 0 THEN -n ELSE n

RECURSIVE GCD(_, _)
GCD(a, b) == IF b = 0 THEN a ELSE GCD(b, a % b)

Rat(n, d) ==
    LET s == IF d < 0 THEN -1 ELSE 1
        g == GCD(Abs(n), Abs(d))
    IN  <<(s * n) \div g, (s * d) \div g>>

RInt(n) == <<n, 1>>
RZero == <<0, 1>>
RAdd(a, b) == Rat(a[1] * b[2] + b[1] * a[2], a[2] * b[2])
RSub(a, b) == Rat(a[1] * b[2] - b[1] * a[2], a[2] * b[2])
RMul(a, b) == Rat(a[1] * b[1], a[2] * b[2])
RDiv(a, b) == Rat(a[1] * b[2], a[2] * b[1])
RLt(a, b) == a[1] * b[2] < b[1] * a[2]
RLe(a, b) == a[1] * b[2] <= b[1] * a[2]
RMin(a, b) == IF RLe(a, b) THEN a ELSE b
RMax(a, b) == IF RLe(a, b) THEN b ELSE a

RECURSIVE RPow(_, _)
RPow(b, k) == IF k = 0 THEN RInt(1) ELSE RMul(b, RPow(b, k - 1))

RECURSIVE RSum(_)
RSum(s) == IF s = <<>> THEN RZero ELSE RAdd(Head(s), RSum(Tail(s)))

(* the element of a one-element set: binds a computed value to a name *)
Only(S) == CHOOSE v \in S : TRUE

Reverse(s) == [i \in 1..Len(s) |-> s[Len(s) + 1 - i]]

-----------------------------------------------------------------------------
(* numpy values: an array (ndim = 1) or a scalar (ndim = 0, one datum);    *)
(* raised = TRUE stands for an exception instead of a value.               *)

Array(data) == [raised |-> FALSE, ndim |-> 1, data |-> data]
Scalar(v) == [raised |-> FALSE, ndim |-> 0, data |-> <<v>>]
Raised == [raised |-> TRUE, ndim |-> 0, data |-> <<>>]

(* np.zeros_like(x_samples) *)
zeros_like(x_samples) == [i \in 1..Len(x_samples) |-> RZero]

-----------------------------------------------------------------------------
(* sympy.sympify on the token grammar                                      *)
(*     expr  ::= term  { "+" term }                                        *)
(*     term  ::= power { "*" power }                                       *)
(*     power ::= atom  [ ("^" | "**") power ]                              *)
(*     atom  ::= numeral | identifier | "(" expr ")"                       *)
(* sympify turns an identifier it does not know into a new Symbol; it      *)
(* reads "^" as exponentiation (convert_xor) exactly like "**".            *)

Numerals == {"2", "5"}
Identifiers == {"x", "y"}
NumVal(t) == IF t = "2" THEN 2 ELSE 5

NoExpr == [op |-> "none", val |-> 0, name |-> "", args |-> <<>>]
Num(v) == [op |-> "num", val |-> v, name |-> "", args |-> <<>>]
Sym(n) == [op |-> "sym", val |-> 0, name |-> n, args |-> <<>>]
Node(o, l, r) == [op |-> o, val |-> 0, name |-> "", args |-> <<l, r>>]
ParseFail == [ok |-> FALSE, expr |-> NoExpr, pos |-> 0]
ParseOk(e, p) == [ok |-> TRUE, expr |-> e, pos |-> p]

(* One recursive-descent parser: rule names the nonterminal read at        *)
(* position i, left is the operand already read (for the "rest" rules).    *)
RECURSIVE parse(_, _, _, _)
parse(toks, i, rule, left) ==
    IF rule = "atom"
    THEN IF i > Len(toks) THEN ParseFail
         ELSE IF toks[i] \in Numerals THEN ParseOk(Num(NumVal(toks[i])), i + 1)
         ELSE IF toks[i] \in Identifiers THEN ParseOk(Sym(toks[i]), i + 1)
         ELSE IF toks[i] = "("
              THEN LET r == parse(toks, i + 1, "expr", NoExpr)
                   IN  IF r.ok /\ r.pos <= Len(toks) /\ toks[r.pos] = ")"
                       THEN ParseOk(r.expr, r.pos + 1)
                       ELSE ParseFail
         ELSE ParseFail
    ELSE IF rule = "power"
    THEN LET a == parse(toks, i, "atom", NoExpr)
         IN  IF ~a.ok THEN ParseFail
             ELSE IF a.pos <= Len(toks) /\ toks[a.pos] \in {"^", "**"}
                  THEN LET r == parse(toks, a.pos + 1, "power", NoExpr)
                       IN  IF r.ok THEN ParseOk(Node("pow", a.expr, r.expr), r.pos)
                           ELSE ParseFail
             ELSE a
    ELSE IF rule = "term"
    THEN LET a == parse(toks, i, "power", NoExpr)
         IN  IF a.ok THEN parse(toks, a.pos, "term_rest", a.expr) ELSE ParseFail
    ELSE IF rule = "term_rest"
    THEN IF i <= Len(toks) /\ toks[i] = "*"
         THEN LET r == parse(toks, i + 1, "power", NoExpr)
              IN  IF r.ok THEN parse(toks, r.pos, "term_rest", Node("mul", left, r.expr))
                  ELSE ParseFail
         ELSE ParseOk(left, i)
    ELSE IF rule = "expr"
    THEN LET a == parse(toks, i, "term", NoExpr)
         IN  IF a.ok THEN parse(toks, a.pos, "expr_rest", a.expr) ELSE ParseFail
    ELSE \* rule = "expr_rest"
         IF i <= Len(toks) /\ toks[i] = "+"
         THEN LET r == parse(toks, i + 1, "term", NoExpr)
              IN  IF r.ok THEN parse(toks, r.pos, "expr_rest", Node("add", left, r.expr))
                  ELSE ParseFail
         ELSE ParseOk(left, i)

(* sp.sympify(s): ok = FALSE stands for SympifyError *)
sympify(s) ==
    LET r == parse(s, 1, "expr", NoExpr)
    IN  IF r.ok /\ r.pos = Len(s) + 1 THEN r ELSE ParseFail

RECURSIVE free_symbols(_)
free_symbols(e) ==
    IF e.op = "sym" THEN {e.name}
    ELSE IF e.op = "num" THEN {}
    ELSE free_symbols(e.args[1]) \cup free_symbols(e.args[2])

(* the value of the expression at x = xv (numeric code from sp.lambdify) *)
RECURSIVE eval_expr(_, _)
eval_expr(e, xv) ==
    IF e.op = "num" THEN RInt(e.val)
    ELSE IF e.op = "sym" THEN xv
    ELSE IF e.op = "add" THEN RAdd(eval_expr(e.args[1], xv), eval_expr(e.args[2], xv))
    ELSE IF e.op = "mul" THEN RMul(eval_expr(e.args[1], xv), eval_expr(e.args[2], xv))
    ELSE RPow(eval_expr(e.args[1], xv), eval_expr(e.args[2], xv)[1])

(* function_str.replace('^', '**') *)
replace_caret(function_str) ==
    [i \in 1..Len(function_str) |->
        IF function_str[i] = "^" THEN "**" ELSE function_str[i]]

(* f = sp.lambdify(x, expr, 'numpy'); f(x_values).  The generated function *)
(* is "def f(x): return <expr>": a symbol other than x is an undefined     *)
(* name (NameError), and an expression without x returns a plain scalar.   *)
lambdify_call(expr, x_values) ==
    IF free_symbols(expr) \ {"x"} # {} THEN Raised
    ELSE IF "x" \notin free_symbols(expr) THEN Scalar(eval_expr(expr, RZero))
    ELSE Array([i \in 1..Len(x_values) |-> eval_expr(expr, x_values[i])])

evaluate_function(function_str, x_values) ==
    LET p == sympify(replace_caret(function_str))
    IN  IF ~p.ok THEN Raised ELSE lambdify_call(p.expr, x_values)

-----------------------------------------------------------------------------
(* calculate_mse: np.mean((predicted - actual) ** 2) with numpy            *)
(* broadcasting of a scalar operand; predicted is a non-empty array.       *)

broadcast(v, n) == IF v.ndim = 0 THEN [i \in 1..n |-> v.data[1]] ELSE v.data

RSquare(a) == RMul(a, a)

mean(values) == RDiv(RSum(values), RInt(Len(values)))

squared_error(predicted, actual) ==
    [i \in 1..Len(predicted) |-> RSquare(RSub(predicted[i], actual[i]))]

calculate_mse(predicted, actual) ==
    mean(squared_error(predicted.data, broadcast(actual, Len(predicted.data))))

-----------------------------------------------------------------------------
(* sample_points *)

(* indices of xs in ascending order of value, equal values in index order *)
argsort(xs) ==
    LET before(i, j) == RLt(xs[i], xs[j]) \/ (xs[i] = xs[j] /\ i < j)
        rank(i) == Cardinality({j \in 1..Len(xs) : before(j, i)})
    IN  [k \in 1..Len(xs) |-> CHOOSE i \in 1..Len(xs) : rank(i) = k - 1]

(* the loop "for i in range(len(x_drawn) - 1, -1, -1)" with seen_x *)
RECURSIVE dedup_loop(_, _, _, _)
dedup_loop(x_drawn, i, unique, seen_x) ==
    IF i < 1 THEN unique
    ELSE IF x_drawn[i] \notin seen_x
         THEN dedup_loop(x_drawn, i - 1, Append(unique, i), seen_x \cup {x_drawn[i]})
         ELSE dedup_loop(x_drawn, i - 1, unique, seen_x)

(* mutant: the loop run forwards, keeping the first occurrence of each x *)
RECURSIVE dedup_loop_forward(_, _, _, _)
dedup_loop_forward(x_drawn, i, unique, seen_x) ==
    IF i > Len(x_drawn) THEN unique
    ELSE IF x_drawn[i] \notin seen_x
         THEN dedup_loop_forward(x_drawn, i + 1, Append(unique, i),
                                 seen_x \cup {x_drawn[i]})
         ELSE dedup_loop_forward(x_drawn, i + 1, unique, seen_x)

unique_indices_keep_first(x_drawn) == dedup_loop_forward(x_drawn, 1, <<>>, {})

unique_indices(x_drawn) == Reverse(dedup_loop(x_drawn, Len(x_drawn), <<>>, {}))

(* mutant: the threshold of the "enough points" test off by one *)
not_enough_points_off_by_one(x_unique) == Len(x_unique) < 1

(* "if len(x_unique) < 2" *)
not_enough_points(x_unique) == Len(x_unique) < 2

(* interp1d(x, y, kind='linear', bounds_error=False, fill_value=(lo, hi))  *)
(* evaluated at xn; x is ascending without repeats.                        *)
interp1d(x, y, fill_lo, fill_hi, xn) ==
    IF RLt(xn, x[1]) THEN fill_lo
    ELSE IF RLt(x[Len(x)], xn) THEN fill_hi
    ELSE IF Len(x) = 1 THEN y[1]
    ELSE LET i == CHOOSE k \in 1..(Len(x) - 1) : RLe(x[k], xn) /\ RLe(xn, x[k + 1])
             slope == RDiv(RSub(y[i + 1], y[i]), RSub(x[i + 1], x[i]))
         IN  RAdd(y[i], RMul(slope, RSub(xn, x[i])))

(* the tail of sample_points: the length test and the interpolation *)
interpolate_unique(x_unique, y_unique, x_samples) ==
    IF not_enough_points(x_unique) THEN Array(zeros_like(x_samples))
    ELSE Array([k \in 1..Len(x_samples) |->
                   interp1d(x_unique, y_unique, y_unique[1],
                            y_unique[Len(y_unique)], x_samples[k])])

(* "Sort by x coordinate": x_unique[sort_idx], y_unique[sort_idx] *)
sort_unique(x_dedup, y_dedup, sort_idx, x_samples) ==
    interpolate_unique([k \in 1..Len(sort_idx) |-> x_dedup[sort_idx[k]]],
                       [k \in 1..Len(sort_idx) |-> y_dedup[sort_idx[k]]], x_samples)

(* x_drawn[unique_indices], y_drawn[unique_indices] *)
take_unique(x_drawn, y_drawn, ui, x_samples) ==
    sort_unique([k \in 1..Len(ui) |-> x_drawn[ui[k]]],
                [k \in 1..Len(ui) |-> y_drawn[ui[k]]],
                argsort([k \in 1..Len(ui) |-> x_drawn[ui[k]]]), x_samples)

sample_points(points, x_samples) ==
    IF points = <<>> THEN Array(zeros_like(x_samples))
    ELSE take_unique([i \in 1..Len(points) |-> points[i][1]],
                     [i \in 1..Len(points) |-> points[i][2]],
                     unique_indices([i \in 1..Len(points) |-> points[i][1]]),
                     x_samples)

-----------------------------------------------------------------------------
(* Pieces of the results block of app.py *)

(* drawn_points.sort(key=lambda p: p[0]): list.sort is stable *)
sort_by_x(points) ==
    LET idx == argsort([i \in 1..Len(points) |-> points[i][1]])
    IN  [k \in 1..Len(points) |-> points[idx[k]]]

(* np.linspace(a, b, n) *)
linspace(a, b, n) ==
    [i \in 1..n |-> IF n = 1 THEN a
                    ELSE RAdd(a, RDiv(RMul(RInt(i - 1), RSub(b, a)), RInt(n - 1)))]

(* mutant: the score without its clamps *)
score_unclamped(mse) ==
    RMul(RInt(100), RSub(RInt(1), RDiv(mse, RInt(MseScale))))

(* score = max(0, 100 * (1 - min(1, mse / 100))) *)
score(mse) ==
    RMax(RZero, RMul(RInt(100), RSub(RInt(1), RMin(RInt(1), RDiv(mse, RInt(MseScale))))))

-----------------------------------------------------------------------------
(* SpecCore: the functions applied to inputs drawn from bounded sets *)

PtX == {1, 3}
PtY == {2, 5}
GridVals == {1, 2, 4}
MseInputs == {RZero, Rat(1, 2), RInt(50), RInt(99), RInt(100), RInt(101), RInt(10000)}

Pts == {<<RInt(px), RInt(py)>> : px \in PtX, py \in PtY}
PointLists == UNION {[1..n -> Pts] : n \in 0..MaxPoints}
Grids == UNION {[1..n -> {RInt(g) : g \in GridVals}] : n \in 0..MaxGrid}

CoreFunctionStrs ==
    { <<"x">>, <<"5">>, <<"x", "^", "2">>, <<"x", "**", "2">>, <<"2", "*", "x", "+", "5">>,
      <<"(", "x", "+", "2", ")", "*", "x">>, <<"2", "+", "5">>, <<"x", "+", "y">>,
      <<"y">>, <<"x", "+">>, <<"(", "x">>, <<>> }

Pending == [raised |-> FALSE, ndim |-> -1, data |-> <<>>]
NoScore == <<RInt(-1), RInt(-1)>>
MkCall(fn, f, pts, g, m) ==
    [fn |-> fn, function_str |-> f, points |-> pts, x_samples |-> g, mse |-> m]
IdleCall == MkCall("none", <<>>, <<>>, <<>>, RZero)

Calls ==
    {MkCall("evaluate_function", f, <<>>, g, RZero) : f \in CoreFunctionStrs, g \in Grids}
    \cup {MkCall("sample_points", <<>>, p, g, RZero) : p \in PointLists, g \in Grids}
    \cup {MkCall("sort_then_sample_points", <<>>, p, g, RZero) :
             p \in PointLists, g \in Grids}
    \cup {MkCall("score", <<>>, <<>>, <<>>, m) : m \in MseInputs}

CallEvaluateFunction ==
    /\ call.fn = "evaluate_function" /\ result = Pending
    /\ result' = evaluate_function(call.function_str, call.x_samples)
    /\ UNCHANGED <<call, prev_score>>
    /\ UNCHANGED session_vars

CallSamplePoints ==
    /\ call.fn = "sample_points" /\ result = Pending
    /\ result' = sample_points(call.points, call.x_samples)
    /\ UNCHANGED <<call, prev_score>>
    /\ UNCHANGED session_vars

(* app.py sorts the drawn points by x, then calls sample_points *)
CallSortThenSamplePoints ==
    /\ call.fn = "sort_then_sample_points" /\ result = Pending
    /\ result' = sample_points(sort_by_x(call.points), call.x_samples)
    /\ UNCHANGED <<call, prev_score>>
    /\ UNCHANGED session_vars

CallScore ==
    /\ call.fn = "score" /\ result = Pending
    /\ result' = Scalar(score(call.mse))
    /\ UNCHANGED <<call, prev_score>>
    /\ UNCHANGED session_vars

(* a later submission's MSE is scored *)
NextScoreCall ==
    /\ call.fn = "score" /\ result # Pending
    /\ call' \in {c \in Calls : c.fn = "score"}
    /\ result' = Pending
    /\ prev_score' = <<call.mse, result.data[1]>>
    /\ UNCHANGED session_vars

-----------------------------------------------------------------------------
(* The session: st.session_state, the widgets and the script of app.py *)

(* canvas_result.json_data / current_canvas_data: None, or the fabric.js   *)
(* document, whose "objects" each may or may not carry a "points" list of  *)
(* canvas pixels <<x, y>>.                                                 *)
NoneData == [present |-> FALSE, objects |-> <<>>]
JsonData(objects) == [present |-> TRUE, objects |-> objects]
Stroke(points) == [has_points |-> TRUE, points |-> points]
OtherObject == [has_points |-> FALSE, points |-> <<>>]

Drawings ==
    { JsonData(<<>>),
      JsonData(<<OtherObject, Stroke(<<>>), Stroke(<< <<0, 400>>, <<600, 0>> >>)>>) }

FunctionInputs ==
    { <<>>, <<"x", "^", "2">>, <<"5">>, <<"x", "+", "y">>, <<"x", "+">> }

(* values typed into the four number_input widgets *)
RangeVals ==
    [x_min |-> {-10, 10}, x_max |-> {-10, 10}, y_min |-> {-10, 10}, y_max |-> {10}]

(* any(len(obj["points"]) > 0 for obj in data["objects"] if "points" in obj) *)
any_points(data) ==
    \E i \in 1..Len(data.objects) :
        data.objects[i].has_points /\ Len(data.objects[i].points) > 0

(* the affine map from canvas pixels to function space *)
to_function_space(point, xr, yr) ==
    << RAdd(RInt(xr[1]), RMul(Rat(point[1], canvas_width), RInt(xr[2] - xr[1]))),
       RSub(RInt(yr[2]), RMul(Rat(point[2], canvas_height), RInt(yr[2] - yr[1]))) >>

(* the loops that fill drawn_points *)
RECURSIVE drawn_points_from(_, _, _, _)
drawn_points_from(objects, i, xr, yr) ==
    IF i > Len(objects) THEN <<>>
    ELSE LET obj == objects[i]
             mapped == IF obj.has_points
                       THEN [k \in 1..Len(obj.points) |->
                                to_function_space(obj.points[k], xr, yr)]
                       ELSE <<>>
         IN  mapped \o drawn_points_from(objects, i + 1, xr, yr)

(* f"{score:.2f}%": the number of hundredths, rounded half to even *)
format_score(s) ==
    LET n == 100 * s[1]
        q == n \div s[2]
        r == n % s[2]
    IN  IF 2 * r < s[2] THEN q
        ELSE IF 2 * r > s[2] THEN q + 1
        ELSE IF q % 2 = 0 THEN q ELSE q + 1

NoCall == [ran |-> FALSE, points |-> <<>>]

Outcome(h, cf, ds, ccd, xr, yr, cv, rd, msgs, cp, rr) ==
    [history |-> h, current_function |-> cf, drawing_submitted |-> ds,
     current_canvas_data |-> ccd, x_range |-> xr, y_range |-> yr, canvas |-> cv,
     rendered |-> rd, messages |-> msgs, core_points |-> cp, rerun |-> rr]

(* the body of the try once the MSE is known: the score, the history      *)
(* append, the plot and the "Try Another Function" button                  *)
scored(h, cf, ccd, xr, yr, cv, rd, msgs, click, drawn_points, y_values, mse) ==
    LET record == [Function |-> cf, Score |-> format_score(score(mse)), MSE |-> mse]
        cp == [ran |-> TRUE, points |-> drawn_points]
    IN  IF y_values.ndim # 1
        \* ax.plot(x_values, y_values) raises on the shape mismatch
        THEN Outcome(Append(h, record), cf, FALSE, ccd, xr, yr, cv, rd,
                     msgs \cup {"error: evaluating function"}, cp, FALSE)
        ELSE IF click = "try_another"
        THEN Outcome(Append(h, record), <<>>, FALSE, NoneData, xr, yr, cv, rd, msgs,
                     cp, TRUE)
        ELSE Outcome(Append(h, record), cf, TRUE, ccd, xr, yr, cv,
                     rd \cup {"try_another"}, msgs, cp, FALSE)

(* the try and its except clause, which resets drawing_submitted *)
evaluated(h, cf, ccd, xr, yr, cv, rd, msgs, click, drawn_points, x_values, y_values) ==
    IF y_values.raised
    THEN Outcome(h, cf, FALSE, ccd, xr, yr, cv, rd,
                 msgs \cup {"error: evaluating function"}, NoCall, FALSE)
    ELSE Only({scored(h, cf, ccd, xr, yr, cv, rd, msgs, click, drawn_points, y_values, mse) :
                  mse \in {calculate_mse(sample_points(drawn_points, x_values), y_values)}})

(* The block "if st.session_state.drawing_submitted and ...current_canvas_data" *)
results_block(h, cf, ccd, xr, yr, cv, rd, msgs, click) ==
    Only({evaluated(h, cf, ccd, xr, yr, cv, rd, msgs, click, drawn_points, x_values,
                    y_values) :
             drawn_points \in {sort_by_x(drawn_points_from(ccd.objects, 1, xr, yr))},
             <<x_values, y_values>> \in
                 {<<xv, evaluate_function(cf, xv)>> :
                     xv \in {linspace(RInt(xr[1]), RInt(xr[2]), NumSamples)}}})

(* The "Test Function" button, lines 68-82 *)
test_function_block(ss, w, click) ==
    IF click # "test_function"
    THEN [current_function |-> ss.current_function,
          drawing_submitted |-> ss.drawing_submitted,
          current_canvas_data |-> ss.current_canvas_data, messages |-> {}]
    ELSE IF w.function_input = <<>>
    THEN [current_function |-> ss.current_function,
          drawing_submitted |-> ss.drawing_submitted,
          current_canvas_data |-> ss.current_canvas_data,
          messages |-> {"warning: enter a function"}]
    ELSE IF sympify(w.function_input).ok
    THEN [current_function |-> w.function_input, drawing_submitted |-> FALSE,
          current_canvas_data |-> NoneData, messages |-> {"success: function set"}]
    ELSE [current_function |-> ss.current_function,
          drawing_submitted |-> ss.drawing_submitted,
          current_canvas_data |-> ss.current_canvas_data,
          messages |-> {"error: invalid function"}]

(* The main content area, lines 98-243, once the canvas data is stored *)
main_area(h, t, ccd, xr, yr, cv, rd, click) ==
    IF click = "submit" /\ ccd.present /\ any_points(ccd)
    THEN Outcome(h, t.current_function, TRUE, ccd, xr, yr, cv, rd, t.messages, NoCall, TRUE)
    ELSE IF t.drawing_submitted /\ ccd.present
    THEN results_block(h, t.current_function, ccd, xr, yr, cv, rd,
                       IF click = "submit"
                       THEN t.messages \cup {"error: draw before submitting"}
                       ELSE t.messages, click)
    ELSE Outcome(h, t.current_function, t.drawing_submitted, ccd, xr, yr, cv, rd,
                 IF click = "submit"
                 THEN t.messages \cup {"error: draw before submitting"}
                 ELSE t.messages, NoCall, FALSE)

(* The script after the "Test Function" button: Clear History, the canvas *)
after_test(ss, w, click, t, xr, yr, rd) ==
    IF ss.history # <<>> /\ click = "clear_history"
    THEN Outcome(<<>>, t.current_function, t.drawing_submitted, t.current_canvas_data,
                 xr, yr, w.canvas, rd, t.messages, NoCall, TRUE)
    ELSE IF t.current_function = <<>>
    \* the canvas is not drawn: a completed run drops its widget state
    THEN Outcome(ss.history, t.current_function, t.drawing_submitted,
                 t.current_canvas_data, xr, yr, NoneData, rd, t.messages, NoCall, FALSE)
    ELSE main_area(ss.history, t,
                   IF w.canvas.present THEN w.canvas ELSE t.current_canvas_data,
                   xr, yr, w.canvas, rd \cup {"canvas"}, click)

(* One run of the script from top to bottom.  ss is st.session_state at    *)
(* the start, w the widget values sent by the browser, click the button    *)
(* pressed (or "none").  rerun = TRUE: the run ended in st.rerun().        *)
script(ss, w, click) ==
    Only({after_test(ss, w, click, t, <<w.x_min, w.x_max>>, <<w.y_min, w.y_max>>,
                     IF ss.history # <<>> THEN {"clear_history"} ELSE {}) :
             t \in {test_function_block(ss, w, click)}})

(* A user event: the run it triggers, and the run after st.rerun() *)
rerun_after(r1, w) ==
    IF r1.rerun
    THEN [script(r1, [w EXCEPT !.canvas = r1.canvas], "none")
             EXCEPT !.core_points = IF r1.core_points.ran THEN r1.core_points ELSE @]
    ELSE r1

run(ss, w, click) ==
    Only({rerun_after(r1, w) : r1 \in {script(ss, w, click)}})

Session ==
    [history |-> history, current_function |-> current_function,
     drawing_submitted |-> drawing_submitted,
     current_canvas_data |-> current_canvas_data]

Widgets ==
    [function_input |-> function_input, x_min |-> x_range[1], x_max |-> x_range[2],
     y_min |-> y_range[1], y_max |-> y_range[2], canvas |-> canvas]

Apply(outcome) ==
    \E r \in {outcome} :
    /\ Len(r.history) <= MaxHistory
    /\ history' = r.history
    /\ current_function' = r.current_function
    /\ drawing_submitted' = r.drawing_submitted
    /\ current_canvas_data' = r.current_canvas_data
    /\ x_range' = r.x_range
    /\ y_range' = r.y_range
    /\ canvas' = r.canvas
    /\ rendered' = r.rendered
    /\ last_message' = r.messages
    /\ core_points' = r.core_points
    /\ UNCHANGED core_vars

EditFunctionInput ==
    \E s \in FunctionInputs \ {function_input} :
        /\ function_input' = s
        /\ Apply(run(Session, [Widgets EXCEPT !.function_input = s], "none"))

EditRange ==
    \E field \in {"x_min", "x_max", "y_min", "y_max"} : \E v \in RangeVals[field] :
        /\ Widgets[field] # v
        /\ Apply(run(Session, [Widgets EXCEPT ![field] = v], "none"))
        /\ UNCHANGED function_input

ClickTestFunction ==
    /\ Apply(run(Session, Widgets, "test_function"))
    /\ UNCHANGED function_input

ClickClearHistory ==
    /\ "clear_history" \in rendered
    /\ Apply(run(Session, Widgets, "clear_history"))
    /\ UNCHANGED function_input

UpdateCanvas ==
    \E d \in Drawings \ {canvas} :
        /\ "canvas" \in rendered
        /\ Apply(run(Session, [Widgets EXCEPT !.canvas = d], "none"))
        /\ UNCHANGED function_input

ClickSubmitPrediction ==
    /\ "canvas" \in rendered
    /\ Apply(run(Session, Widgets, "submit"))
    /\ UNCHANGED function_input

ClickTryAnotherFunction ==
    /\ "try_another" \in rendered
    /\ Apply(run(Session, Widgets, "try_another"))
    /\ UNCHANGED function_input

-----------------------------------------------------------------------------
(* Specifications *)

SessionInit ==
    /\ history = <<>>
    /\ current_function = <<>>
    /\ drawing_submitted = FALSE
    /\ current_canvas_data = NoneData
    /\ x_range = <<-10, 10>>
    /\ y_range = <<-10, 10>>
    /\ function_input = <<>>
    /\ canvas = NoneData
    /\ rendered = {}
    /\ last_message = {}
    /\ core_points = NoCall

Init ==
    /\ SessionInit
    /\ call = IdleCall
    /\ result = Pending
    /\ prev_score = NoScore

Next ==
    \/ EditFunctionInput
    \/ EditRange
    \/ ClickTestFunction
    \/ ClickClearHistory
    \/ UpdateCanvas
    \/ ClickSubmitPrediction
    \/ ClickTryAnotherFunction

Spec == Init /\ [][Next]_vars

InitCore ==
    /\ SessionInit
    /\ call \in Calls
    /\ result = Pending
    /\ prev_score = NoScore

NextCore ==
    \/ CallEvaluateFunction
    \/ CallSamplePoints
    \/ CallSortThenSamplePoints
    \/ CallScore
    \/ NextScoreCall

SpecCore == InitCore /\ [][NextCore]_vars

-----------------------------------------------------------------------------
(* Properties of the session (checked under Spec) *)

(* the data the Submit Prediction guard reads: the canvas value is stored  *)
(* in current_canvas_data before the button is tested                      *)
stored_canvas_data == IF canvas.present THEN canvas ELSE current_canvas_data

TestFunctionSucceeds == ClickTestFunction /\ "success: function set" \in last_message'
TestFunctionFails ==
    /\ ClickTestFunction
    /\ last_message' \cap {"error: invalid function", "warning: enter a function"} # {}

(* the identifiers an input mentions *)
identifiers_of(s) == {s[i] : i \in 1..Len(s)} \cap Identifiers

(* C1: the history gains exactly one record per scored submission; editing *)
(* a range, updating the canvas, a failed Test Function and Clear History  *)
(* never lengthen it; it shrinks only by Clear History, which leaves it    *)
(* empty.                                                                  *)
C1_OneRecordPerSubmission ==
    [][ /\ (ClickSubmitPrediction /\ core_points'.ran)
            => Len(history') = Len(history) + 1
        /\ (EditRange \/ UpdateCanvas \/ TestFunctionFails \/ ClickClearHistory)
            => Len(history') <= Len(history)
        /\ ClickClearHistory => history' = <<>>
        /\ Len(history') < Len(history) => ClickClearHistory ]_vars

(* C2: after a successful Test Function drawing_submitted is false and the *)
(* stored stroke data holds no stroke.                                     *)
C2_TestFunctionResetsDrawing ==
    [][ TestFunctionSucceeds
            => (drawing_submitted' = FALSE /\ ~any_points(current_canvas_data')) ]_vars

(* C3: Test Function on an input that mentions more than one variable or   *)
(* an identifier other than x reports an invalid expression and does not   *)
(* install it as current_function.                                         *)
C3_RejectsUnknownIdentifiers ==
    [][ (ClickTestFunction /\ ~(identifiers_of(function_input) \subseteq {"x"}))
            => ("error: invalid function" \in last_message'
                /\ current_function' # function_input) ]_vars

(* C4: the stored ranges always satisfy x_min < x_max and y_min < y_max.   *)
C4_RangesOrdered == x_range[1] < x_range[2] /\ y_range[1] < y_range[2]

(* C6: a failed Test Function leaves current_function, history,            *)
(* drawing_submitted and the stored stroke data as they were.              *)
C6_FailedTestChangesNothing ==
    [][ TestFunctionFails
            => UNCHANGED <<current_function, history, drawing_submitted,
                           current_canvas_data>> ]_vars

(* C7: a Submit Prediction on a drawing without stroke points is rejected  *)
(* (drawing_submitted false, no record appended), and whenever the results *)
(* block calls sample_points the drawn point list is not empty.            *)
C7_NoEmptyDrawingScored ==
    [][ /\ (ClickSubmitPrediction /\ ~any_points(stored_canvas_data))
            => (drawing_submitted' = FALSE /\ history' = history)
        /\ core_points'.ran => core_points'.points # <<>> ]_vars

-----------------------------------------------------------------------------
(* Properties of the functions (checked under SpecCore) *)

Done(fn) == call.fn = fn /\ result # Pending

distinct_x(points) == {points[i][1] : i \in 1..Len(points)}

(* the expressions the specification calls valid: they parse and mention   *)
(* no variable but x                                                       *)
valid_expression(s) ==
    sympify(replace_caret(s)).ok /\ identifiers_of(s) \subseteq {"x"}

(* the y of the last point drawn at x *)
last_y_at(points, x) ==
    points[CHOOSE i \in 1..Len(points) :
              points[i][1] = x /\ \A j \in (i + 1)..Len(points) : points[j][1] # x][2]

LastDuplicateWins ==
    \A k \in 1..Len(call.x_samples) :
        call.x_samples[k] \in distinct_x(call.points)
            => result.data[k] = last_y_at(call.points, call.x_samples[k])

(* C5: for a valid expression evaluate_function returns a sequence with    *)
(* one value per grid point.                                               *)
C5_OneValuePerGridPoint ==
    (Done("evaluate_function") /\ valid_expression(call.function_str))
        => (~result.raised /\ result.ndim = 1
            /\ Len(result.data) = Len(call.x_samples))

(* C8 as stated: at every grid point that is the x of a drawn point, the   *)
(* resampled value is the y of the last point drawn at that x, for every   *)
(* point list, with or without the sort by x before sample_points.         *)
C8_LastDuplicateWinsAlways ==
    (Done("sample_points") \/ Done("sort_then_sample_points")) => LastDuplicateWins

(* C8 amended: the same, for point lists with at least two distinct x.     *)
C8_LastDuplicateWins ==
    ((Done("sample_points") \/ Done("sort_then_sample_points"))
        /\ Cardinality(distinct_x(call.points)) >= 2) => LastDuplicateWins

C8_Witness ==
    /\ Done("sort_then_sample_points")
    /\ call.points = << <<RInt(3), RInt(2)>>, <<RInt(1), RInt(2)>>, <<RInt(1), RInt(5)>> >>
    /\ call.x_samples = <<RInt(1)>>
    /\ result.data = <<RInt(5)>>

(* C9: for a point list with fewer than two distinct x, sample_points      *)
(* returns zeros, one per grid point.                                      *)
C9_TooFewPointsGiveZeros ==
    (Done("sample_points") /\ Cardinality(distinct_x(call.points)) < 2)
        => result = Array([k \in 1..Len(call.x_samples) |-> RZero])

C9_Witness ==
    /\ Done("sample_points")
    /\ Len(call.points) = 2
    /\ Cardinality(distinct_x(call.points)) = 1
    /\ call.points[1][2] # call.points[2][2]
    /\ Len(call.x_samples) = 2
    /\ call.points[1][1] \in {call.x_samples[k] : k \in 1..2}
    /\ result.data = <<RZero, RZero>>

(* C10: for an MSE >= 0 the score lies in [0, 100], is 100 at MSE 0, 0     *)
(* from MSE 100 on and 100 - MSE in between, and of two scores the one of  *)
(* the larger MSE is not the larger.                                       *)
C10_ScoreClampedMonotone ==
    Done("score") =>
        /\ RLe(RZero, result.data[1]) /\ RLe(result.data[1], RInt(100))
        /\ call.mse = RZero => result.data[1] = RInt(100)
        /\ RLe(RInt(100), call.mse) => result.data[1] = RZero
        /\ RLe(call.mse, RInt(100)) => result.data[1] = RSub(RInt(100), call.mse)
        /\ (prev_score # NoScore /\ RLe(prev_score[1], call.mse))
              => RLe(result.data[1], prev_score[2])
        /\ (prev_score # NoScore /\ RLe(call.mse, prev_score[1]))
              => RLe(prev_score[2], result.data[1])

C10_Witness ==
    /\ Done("score")
    /\ prev_score = <<Rat(1, 2), Rat(199, 2)>>
    /\ call.mse = RInt(101)
    /\ result.data[1] = RZero

====
